---- MODULE Spec2Model ----
(***************************************************************************)
(* A model of the tennis court plotting utility: plot_court_3d and text3d  *)
(* of plotting.py, and cmap_alpha, fit_parabola3d, the bounce-point        *)
(* flipping and the ace-arc loop of serve_example.py.                      *)
(*                                                                         *)
(* Numbers.  Lengths of the court are held in units of 0.1 mm, so that     *)
(* every regulation constant and every half of one is an integer.  Colour  *)
(* components are held in thousandths.  Values of np.linspace(0, 1, n) are *)
(* held as fractions [num, den].  Rotation angles are held as a number of  *)
(* quarter turns (angle = q * pi / 2).                                     *)
(***************************************************************************)
EXTENDS Integers, Sequences, FiniteSets, TLC

VARIABLES
    artists,    \* what the 3D axes hold, in drawing order (lines, collections, patches)
    axcfg,      \* the settings of the 3D axes (limits, panes, grid, ticks, aspect)
    fontLoads,  \* how many times the "Load font" step of text3d has run
    args,       \* the arguments of the call being made
    ret,        \* what the call returned or raised
    pc          \* where the call (or the body of the ace loop) stands

vars == <<artists, axcfg, fontLoads, args, ret, pc>>

\* ------------------------------------------------------------------ bounds

\* Number of drawing calls (plot_court_3d, text3d) made on one axes.
MaxCalls == 2

\* Most points handed to fit_parabola3d, and the largest npoints asked of it.
MaxPoints == 8
MaxNpoints == 4

\* Most tracking samples of one point_ID in the ace loop.
MaxSamples == 9

\* Most serves in the play-by-play table.
MaxServes == 2

\* ------------------------------------------------------------ small helpers

Min(a, b) == IF a < b THEN a ELSE b
Max(a, b) == IF a > b THEN a ELSE b

\* One metre, in the unit of the court lengths (0.1 mm).
Metre == 10 * 1000

\* No call made yet / no value.
None == [status |-> "none"]

\* A raised exception, reported to the caller.
Raise(kind) == [status |-> kind]

\* ------------------------------------------------------------------ colours

\* A colour as the caller spells it: a string, or a tuple of components.
Str(n) == [kind |-> "str", name |-> n, comps |-> <<>>]
Tup(c) == [kind |-> "tuple", name |-> "", comps |-> c]

\* isinstance(c, str)
IsStr(c) == c.kind = "str"

\* len(c): the characters of a string, the components of a tuple.
PyLen(c) == IF IsStr(c) THEN Len(c.name) ELSE Len(c.comps)

\* matplotlib's named colours used here, components in thousandths.
NamedColours ==
    [name \in {"teal", "orange", "pink", "black", "ivory", "white", "r", "k",
               "cornflowerblue"} |->
        CASE name = "teal"           -> <<0, 502, 502>>
          [] name = "orange"         -> <<1000, 647, 0>>
          [] name = "pink"           -> <<1000, 753, 796>>
          [] name = "black"          -> <<0, 0, 0>>
          [] name = "ivory"          -> <<1000, 1000, 941>>
          [] name = "white"          -> <<1000, 1000, 1000>>
          [] name = "r"              -> <<1000, 0, 0>>
          [] name = "k"              -> <<0, 0, 0>>
          [] name = "cornflowerblue" -> <<392, 584, 929>>]

\* Whether colors.to_rgba accepts c: a known name, or 3 or 4 components in [0, 1].
IsColour(c) ==
    IF IsStr(c)
    THEN c.name \in DOMAIN NamedColours
    ELSE /\ Len(c.comps) \in {3, 4}
         /\ \A i \in 1..Len(c.comps) : c.comps[i] >= 0 /\ c.comps[i] <= 1000

\* colors.to_rgba(c): <<r, g, b, a>>, alpha 1 when c gives none.
to_rgba(c) ==
    LET rgb == IF IsStr(c) THEN NamedColours[c.name] ELSE c.comps
    IN  IF Len(rgb) = 4 THEN rgb ELSE Append(rgb, 1000)

\* The red, green and blue of an RGBA entry.
RGB(e) == <<e[1], e[2], e[3]>>

\* court_colour = (0.603, 0.184, 0.035, 1)
court_colour == Tup(<<603, 184, 35, 1000>>)
deuce_textcolor == Tup(<<203, 435, 325, 500>>)

\* ------------------------------------------------------- plot_court_3d

COURT_X_BOUND == 15
COURT_Y_BOUND == 8
COURT_Z_BOUND == 5

\* 23.77, 8.23, 10.973 and 6.4 metres
COURT_LENGTH == 237700
COURT_WIDTH_SING == 82300
COURT_WIDTH_DOUB == 109730
SERVICE_BOX_LENGTH == 64000

\* 1.07 and 0.91 metres
NET_HEIGHT_POST == 10700
NET_HEIGHT_CENTRE == 9100

\* COURT_WIDTH_DOUB + 0.5
NET_WIDTH == COURT_WIDTH_DOUB + Metre \div 2

\* Z height of the court lines
min_h == 0

\* The length of the baseline centre markers, 0.2 metres.
CentreMark == Metre \div 5

\* ax.plot(xs, ys, zs, c=color): a line; a scalar zs is broadcast to the points.
Line(name, xs, ys, zs, color) ==
    [kind |-> "line", name |-> name, x |-> xs, y |-> ys, z |-> zs, color |-> color]

Flat(xs) == [i \in 1..Len(xs) |-> min_h]

sidelineX == <<-COURT_LENGTH \div 2, COURT_LENGTH \div 2>>
sidelineY == <<-COURT_WIDTH_DOUB \div 2, -COURT_WIDTH_DOUB \div 2>>
sidelineY2 == <<COURT_WIDTH_DOUB \div 2, COURT_WIDTH_DOUB \div 2>>

sing_sidelineX == <<-COURT_LENGTH \div 2, COURT_LENGTH \div 2>>

\* The mutant draws the singles sidelines at the doubles width.
sing_sidelineY_doub == <<-COURT_WIDTH_DOUB \div 2, -COURT_WIDTH_DOUB \div 2>>
sing_sidelineY == <<-COURT_WIDTH_SING \div 2, -COURT_WIDTH_SING \div 2>>
sing_sidelineY2 == <<COURT_WIDTH_SING \div 2, COURT_WIDTH_SING \div 2>>

baselineX == <<-COURT_LENGTH \div 2, -COURT_LENGTH \div 2>>
baselineY == <<-COURT_WIDTH_DOUB \div 2, COURT_WIDTH_DOUB \div 2>>
baselineX2 == <<COURT_LENGTH \div 2, COURT_LENGTH \div 2>>

servicelineX == <<-SERVICE_BOX_LENGTH, -SERVICE_BOX_LENGTH>>
servicelineY == <<-COURT_WIDTH_SING \div 2, COURT_WIDTH_SING \div 2>>
servicelineX2 == <<SERVICE_BOX_LENGTH, SERVICE_BOX_LENGTH>>

centrelineX == <<-SERVICE_BOX_LENGTH, SERVICE_BOX_LENGTH>>
centrelineY == <<0, 0>>

\* The net mesh: one polygon of five vertices <<x, y, z>>.
NetVerts ==
    LET x == <<0, 0, 0, 0, 0>>
        y == <<-NET_WIDTH \div 2, 0, NET_WIDTH \div 2, NET_WIDTH \div 2, -NET_WIDTH \div 2>>
        z == <<NET_HEIGHT_POST, NET_HEIGHT_CENTRE, NET_HEIGHT_POST, 0, 0>>
    IN  [i \in 1..5 |-> <<x[i], y[i], z[i]>>]

\* Lines 54-114: everything plot_court_3d draws, in drawing order.
CourtArtists(line_colour, netpost_colour, netcord_colour) ==
    << Line("sideline", sidelineX, sidelineY, Flat(sidelineX), line_colour),
       Line("sideline2", sidelineX, sidelineY2, Flat(sidelineX), line_colour),
       Line("sing_sideline", sing_sidelineX, sing_sidelineY, Flat(sing_sidelineX), line_colour),
       Line("sing_sideline2", sing_sidelineX, sing_sidelineY2, Flat(sing_sidelineX), line_colour),
       Line("baseline", baselineX, baselineY, Flat(baselineX), line_colour),
       Line("baseline2", baselineX2, baselineY, Flat(baselineX2), line_colour),
       Line("serviceline", servicelineX, servicelineY, Flat(servicelineX), line_colour),
       Line("serviceline2", servicelineX2, servicelineY, Flat(servicelineX2), line_colour),
       Line("centreline", centrelineX, centrelineY, Flat(centrelineX), line_colour),
       Line("centremark", <<COURT_LENGTH \div 2, (COURT_LENGTH \div 2) - CentreMark>>,
            <<0, 0>>, <<min_h, min_h>>, line_colour),
       Line("centremark2", <<-COURT_LENGTH \div 2, (-COURT_LENGTH \div 2) + CentreMark>>,
            <<0, 0>>, <<min_h, min_h>>, line_colour),
       [kind |-> "poly3d", name |-> "net", verts |-> NetVerts],
       Line("netpost_left", <<0, 0>>, <<-NET_WIDTH \div 2, -NET_WIDTH \div 2>>,
            <<0, NET_HEIGHT_POST>>, netpost_colour),
       Line("netpost_right", <<0, 0>>, <<NET_WIDTH \div 2, NET_WIDTH \div 2>>,
            <<0, NET_HEIGHT_POST>>, netpost_colour),
       Line("netcord", <<0, 0, 0>>, <<-NET_WIDTH \div 2, 0, NET_WIDTH \div 2>>,
            <<NET_HEIGHT_POST, NET_HEIGHT_CENTRE, NET_HEIGHT_POST>>, netcord_colour) >>

\* The axes as plt.gca(projection='3d') hands them over.
FreshAxes ==
    [limits |-> "auto", pane_fill |-> "default", pane_color |-> "default",
     grid |-> TRUE, ticks |-> TRUE, box_aspect |-> "auto"]

\* Lines 47-49 and 118-125: the limits and the pane fills, set before the floor
\* colour is looked at.
CourtLimits(cfg) ==
    [cfg EXCEPT !.limits = <<COURT_X_BOUND, COURT_Y_BOUND, COURT_Z_BOUND>>,
                !.pane_fill = <<FALSE, FALSE, TRUE>>]

\* Lines 128-151: the floor colour, then grid, ticks, spines and aspect.
CourtFinish(cfg, colour) ==
    [cfg EXCEPT !.pane_color = to_rgba(colour), !.grid = FALSE, !.ticks = FALSE,
                !.box_aspect = <<2 * COURT_X_BOUND, 2 * COURT_Y_BOUND, COURT_Z_BOUND>>]

\* The floor colours a caller may pass: the default, the example's tuple, and
\* two that colors.to_rgba rejects.
CourtColours ==
    {Str("cornflowerblue"), court_colour, Str("notacolour"), Tup(<<603, 184>>)}

\* The drawing calls made on the axes so far: each court starts with its first
\* sideline, each text3d call adds one patch.
DrawCalls ==
    Cardinality({i \in 1..Len(artists) : artists[i].name \in {"sideline", "text"}})

\* plot_court_3d(ax, court_colour, line_colour, netpost_colour, netcord_colour):
\* the lines, the net and the posts are drawn first; to_rgba / set_pane_color
\* raises ValueError on a colour it does not accept, after they are drawn.
plot_court_3d(colour, line_colour, netpost_colour, netcord_colour) ==
    /\ DrawCalls < MaxCalls
    /\ artists' = artists \o CourtArtists(line_colour, netpost_colour, netcord_colour)
    /\ IF IsColour(colour)
       THEN /\ axcfg' = CourtFinish(CourtLimits(axcfg), colour)
            /\ ret' = [status |-> "ok"]
       ELSE /\ axcfg' = CourtLimits(axcfg)
            /\ ret' = Raise("ValueError")
    /\ args' = [op |-> "plot_court_3d", court_colour |-> colour]
    /\ UNCHANGED <<fontLoads, pc>>

\* -------------------------------------------------------------- text3d

\* The anchors, depth-axis designators, rotations, sizes and strings tried.
\* "w" is no axis; "" is the empty designator.
Anchors == {<<8, -4, 0>>, <<1, 2, 3>>, <<-2, 5, 7>>}
ZDirs == {"x", "y", "z", "w", ""}
Angles == {0, 1}
Sizes == {1}
Texts == {"Aces"}

\* Lines 167-173: the in-plane pair xy1 and the depth offset z1 of the anchor.
\* The mutant treats zdir "y" like "z".
SplitAnchorNoY(xyz, zdir) ==
    LET x == xyz[1]
        y == xyz[2]
        z == xyz[3]
    IN  IF zdir = "x" THEN [xy1 |-> <<y, z>>, z1 |-> x]
        ELSE [xy1 |-> <<x, y>>, z1 |-> z]

SplitAnchor(xyz, zdir) ==
    LET x == xyz[1]
        y == xyz[2]
        z == xyz[3]
    IN  IF zdir = "y" THEN [xy1 |-> <<x, z>>, z1 |-> y]
        ELSE IF zdir = "x" THEN [xy1 |-> <<y, z>>, z1 |-> x]
        ELSE [xy1 |-> <<x, y>>, z1 |-> z]

\* TextPath((0, 0), s, size=size, prop=fp): the outline of s set at the origin.
\* The glyph outlines come from the font file; the path is held as the corners
\* of the text's layout box, the first of them the origin (0, 0).
TextPath(s, size) ==
    << <<0, 0>>, <<Len(s) * size, 0>>, <<Len(s) * size, size>>, <<0, size>> >>

\* Affine2D().rotate(angle).translate(tx, ty) applied to a point: the rotation
\* about the origin first (angle = q quarter turns), the translation second.
Rotate(q, v) ==
    CASE q % 4 = 0 -> v
      [] q % 4 = 1 -> <<-v[2], v[1]>>
      [] q % 4 = 2 -> <<-v[1], -v[2]>>
      [] q % 4 = 3 -> <<v[2], -v[1]>>

RotateTranslate(q, t, v) == LET r == Rotate(q, v) IN <<r[1] + t[1], r[2] + t[2]>>

\* trans.transform_path(text_path)
transform_path(q, t, path) == [i \in 1..Len(path) |-> RotateTranslate(q, t, path[i])]

\* art3d.juggle_axes(x, y, z, zdir), as pathpatch_2d_to_3d applies it to each
\* vertex: zdir "x" and "y" reorder the coordinates, any other designator leaves
\* them as they are.
juggle_axes(x, y, z, zdir) ==
    IF zdir = "x" THEN <<z, x, y>>
    ELSE IF zdir = "y" THEN <<x, z, y>>
    ELSE <<x, y, z>>

\* Whether art3d.pathpatch_2d_to_3d(p1, z=z1, zdir=zdir) raises: juggle_axes
\* reads zdir[0], which the empty designator does not have (IndexError).
EmbedRaises(zdir) == zdir = ""

\* text3d(ax, xyz, s, zdir, size, angle, ...).  The font is set up in every call
\* (lines 175-177); the patch is added to the axes (line 184) before it is
\* embedded in 3D (line 185).
text3d(xyz, s, zdir, size, angle, facecolor, edgecolor) ==
    LET sp == SplitAnchor(xyz, zdir)
        path2d == transform_path(angle, sp.xy1, TextPath(s, size))
        p1 == [kind |-> "patch", name |-> "text", verts |-> path2d, verts3d |-> <<>>,
               facecolor |-> facecolor, edgecolor |-> edgecolor, alpha |-> "None"]
        p3 == [p1 EXCEPT !.verts3d =
                   [i \in 1..Len(path2d) |->
                       juggle_axes(path2d[i][1], path2d[i][2], sp.z1, zdir)]]
    IN  /\ DrawCalls < MaxCalls
        /\ fontLoads' = fontLoads + 1
        /\ IF EmbedRaises(zdir)
           THEN /\ artists' = Append(artists, p1)
                /\ ret' = Raise("IndexError")
           ELSE /\ artists' = Append(artists, p3)
                /\ ret' = [status |-> "ok"]
        /\ args' = [op |-> "text3d", xyz |-> xyz, s |-> s, zdir |-> zdir,
                    size |-> size, angle |-> angle]
        /\ UNCHANGED <<axcfg, pc>>

\* ------------------------------------------------- the drawing calls

Init ==
    /\ artists = <<>>
    /\ axcfg = FreshAxes
    /\ fontLoads = 0
    /\ args = [op |-> "none"]
    /\ ret = None
    /\ pc = "idle"

PlotCourt ==
    \E c \in CourtColours : plot_court_3d(c, Str("white"), Str("black"), Str("ivory"))

Text3d ==
    \E xyz \in Anchors, s \in Texts, zdir \in ZDirs, size \in Sizes, angle \in Angles :
        text3d(xyz, s, zdir, size, angle, Str("black"), Str("black"))

Next == PlotCourt \/ Text3d

Spec == Init /\ [][Next]_vars

\* ------------------------------------------- claims on the drawing calls

\* The patch the last text3d call added.
LastPatch == artists[Len(artists)]

\* A step that is a text3d call: the only one that sets up the font.
IsText3dStep == fontLoads' # fontLoads

\* The depth-axis designators text3d recognises.
Axes == {"x", "y", "z"}

\* C5 (as claimed): a text3d call with a depth-axis designator other than x, y
\* or z ends in InvalidAxisError and adds no patch to the axes.
C5_InvalidAxisRejected ==
    [][(IsText3dStep /\ args'.zdir \notin Axes)
          => (ret'.status = "InvalidAxisError" /\ artists' = artists)]_vars

\* C6 (as claimed): a component call that fails leaves the artifacts on the
\* drawing surface as they were before the call.
C6_FailedCallDrawsNothing ==
    [][(ret'.status # "ok") => (artists' = artists)]_vars

\* The text3d calls made so far.
TextCalls == Cardinality({i \in 1..Len(artists) : artists[i].name = "text"})

\* C7 (as claimed): once text3d has been called, the font has been loaded
\* exactly once, however many calls followed.
C7_FontLoadedOnce == (TextCalls >= 1) => (fontLoads = 1)

\* The places in artists where a court starts.
Courts == {i \in 1..Len(artists) : artists[i].name = "sideline"}

\* C8: in every court drawn, the doubles sidelines are 10.973 - 8.23 m further
\* apart in y than the singles sidelines, the two baselines lie at x = -23.77/2
\* and x = +23.77/2, and the centre vertex of the net mesh (0.91 m) is lower than
\* its two post-top vertices (1.07 m).
C8_CourtConsistent ==
    \A i \in Courts :
        LET doub1 == artists[i]
            doub2 == artists[i + 1]
            sing1 == artists[i + 2]
            sing2 == artists[i + 3]
            base1 == artists[i + 4]
            base2 == artists[i + 5]
            net == artists[i + 11]
            Extent(a, b) == b.y[1] - a.y[1]
        IN  /\ \A l \in {doub1, doub2, sing1, sing2} : l.y[1] = l.y[2]
            /\ Extent(doub1, doub2) - Extent(sing1, sing2) = 109730 - 82300
            /\ Extent(doub1, doub2) = 109730
            /\ \A l \in {base1, base2} : l.x[1] = l.x[2]
            /\ base1.x[1] + base2.x[1] = 0
            /\ 2 * base2.x[1] = 237700
            /\ net.verts[2][3] = 9100
            /\ net.verts[1][3] = 10700 /\ net.verts[3][3] = 10700
            /\ net.verts[2][3] < net.verts[1][3]
            /\ net.verts[2][3] < net.verts[3][3]

\* C8, witness: a court has been drawn.
C8_Witness == Courts # {} /\ args.op = "plot_court_3d" /\ ret.status = "ok"

\* C9: after text3d with angle 0 and depth axis x, y or z, the origin of the
\* text lies at the anchor (x, y, z) as given; with depth axis z, every vertex
\* of the patch has the anchor's z.
C9_AnchorPreserved ==
    (args.op = "text3d" /\ ret.status = "ok" /\ args.zdir \in Axes) =>
        /\ (args.angle = 0) => (LastPatch.verts3d[1] = args.xyz)
        /\ (args.zdir = "z") =>
               \A i \in 1..Len(LastPatch.verts3d) : LastPatch.verts3d[i][3] = args.xyz[3]

\* C9, witness: a text was placed with angle 0 along the y axis at an anchor
\* whose three coordinates differ.
C9_Witness ==
    /\ args.op = "text3d" /\ ret.status = "ok"
    /\ args.angle = 0 /\ args.zdir = "y" /\ args.xyz = <<1, 2, 3>>
    /\ LastPatch.verts3d[1] = <<1, 2, 3>>

\* ---------------------------------------------------------- cmap_alpha

\* np.linspace(0, 1, n): n evenly spaced values from 0 to 1, both ends
\* included; the single value of n = 1 is the start, 0.
\* The mutant leaves the end point out (endpoint=False).
linspace_open(n) == [i \in 1..n |-> [num |-> i - 1, den |-> n]]

linspace(n) ==
    [i \in 1..n |-> IF n = 1 THEN [num |-> 0, den |-> 1]
                             ELSE [num |-> i - 1, den |-> n - 1]]

\* Fractions: equal to 0, equal to 1, at most.
IsZero(f) == f.num = 0
IsOne(f) == f.num = f.den
Leq(f, g) == f.num * g.den <= g.num * f.den

\* ListedColormap(colors, name): without N, the map has len(colors) entries.
ListedColormap(colors, name) == [colors |-> colors, name |-> name, N |-> PyLen(colors)]

\* cmap(np.arange(cmap.N)): the lookup table, to_rgba_array(colors) broadcast
\* over the N entries; a single colour fills every entry.
LookupTable(cmap) == [i \in 1..cmap.N |-> to_rgba(cmap.colors)]

\* cmap_alpha(min_colour, max_colour), lines 28-40: max_colour is passed as the
\* colours of the map and min_colour as its name; the alpha of each entry is
\* then overwritten by linspace(0, 1, N).
cmap_alpha(min_colour, max_colour) ==
    LET cmap == ListedColormap(max_colour, min_colour)
        alpha == linspace(cmap.N)
    IN  IF ~IsColour(max_colour)
        THEN Raise("ValueError")
        ELSE [status |-> "ok",
              value |-> [i \in 1..cmap.N |->
                            [rgb |-> RGB(LookupTable(cmap)[i]), alpha |-> alpha[i]]]]

\* The colours tried, in their several spellings: names of 1 to 14 characters,
\* RGBA 4-tuples, an RGB 3-tuple, and a name that is no colour.
RampColours ==
    { Str("teal"), Str("orange"), Str("pink"), Str("r"), Str("k"),
      Str("cornflowerblue"), court_colour, deuce_textcolor, Tup(<<0, 0, 0>>),
      Str("notacolour") }

InitRamp ==
    /\ artists = <<>>
    /\ axcfg = FreshAxes
    /\ fontLoads = 0
    /\ args \in [op : {"cmap_alpha"}, min_colour : RampColours, max_colour : RampColours]
    /\ ret = None
    /\ pc = "call"

CmapAlpha ==
    /\ pc = "call"
    /\ args.op = "cmap_alpha"
    /\ ret' = cmap_alpha(args.min_colour, args.max_colour)
    /\ pc' = "done"
    /\ UNCHANGED <<artists, axcfg, fontLoads, args>>

NextRamp == CmapAlpha

SpecRamp == InitRamp /\ [][NextRamp]_vars

\* A ramp has been returned.
RampReturned == pc = "done" /\ args.op = "cmap_alpha" /\ ret.status = "ok"

\* C1 (as claimed): for every pair of colours the ramp has the reference size
\* (that of the example's first ramp, whatever the spelling), its entry 0 carries
\* min_colour's RGB and its last entry max_colour's RGB.
C1_RampInterpolates ==
    (pc = "done" /\ args.op = "cmap_alpha"
       /\ IsColour(args.min_colour) /\ IsColour(args.max_colour)) =>
        /\ ret.status = "ok"
        /\ Len(ret.value) = Len(cmap_alpha(court_colour, Str("teal")).value)
        /\ ret.value[1].rgb = RGB(to_rgba(args.min_colour))
        /\ ret.value[Len(ret.value)].rgb = RGB(to_rgba(args.max_colour))

splprep(m, k) ==
    IF ~(1 <= k /\ k <= 5) THEN Raise("TypeError")
    ELSE IF m <= k THEN Raise("TypeError")
    ELSE [status |-> "ok", tck |-> [k |-> k, m |-> m]]

\* interpolate.splev(u_fine, tck): one value per parameter value, for each of
\* the three coordinates.  The value is held as the coordinate and the parameter
\* it was evaluated at.
splev(u_fine, tck) ==
    [c \in {"x", "y", "z"} |-> [i \in 1..Len(u_fine) |-> [coord |-> c, u |-> u_fine[i]]]]

\* The mutant hands the samples back unfitted when there are fewer than two.
fit_parabola3d_short(x, y, z, npoints) ==
    IF Len(x) < 2
    THEN [status |-> "ok", x_fine |-> x, y_fine |-> y, z_fine |-> z]
    ELSE LET fit == splprep(Len(x), Len(x) - 1)
         IN  IF fit.status # "ok" THEN fit
             ELSE LET fine == splev(linspace(npoints), fit.tck)
                  IN  [status |-> "ok", x_fine |-> fine["x"], y_fine |-> fine["y"],
                       z_fine |-> fine["z"]]

\* fit_parabola3d(x, y, z, npoints), lines 44-54: the degree is len(x) - 1,
\* as it is; an exception of splprep goes to the caller.
fit_parabola3d(x, y, z, npoints) ==
    LET fit == splprep(Len(x), Len(x) - 1)
    IN  IF fit.status # "ok" THEN fit
        ELSE LET fine == splev(linspace(npoints), fit.tck)
             IN  [status |-> "ok", x_fine |-> fine["x"], y_fine |-> fine["y"],
                  z_fine |-> fine["z"]]

\* The tracking samples of one point: n rows, served from the end of the court
\* given by side (1: the first sample has x > 0).
Track(n, side) == [i \in 1..n |-> [x |-> side * (13 - 2 * i), y |-> side * i, z |-> 3 + i]]

\* A column of the rows from..to of a table (data.iloc[from-1:to][col]).
Column(data, col, from, to) ==
    [i \in 1..Max(0, Min(to, Len(data)) - from + 1) |-> data[from + i - 1][col]]

\* Lines 151-152: the serves from the far end are flipped in x and y.
FlipServe(data) ==
    IF data[1].x > 0
    THEN [i \in 1..Len(data) |-> [data[i] EXCEPT !.x = -data[i].x, !.y = -data[i].y]]
    ELSE data

\* Lines 148-165, the body of the ace loop for one point_ID: the first three
\* samples are fitted as the descent, the samples from the third on as the
\* ascent, 100 points each, and the two are plotted as one line.
AceArc(data) ==
    IF Len(data) = 0 THEN [ret |-> Raise("IndexError"), drawn |-> <<>>]
    ELSE
    LET d == FlipServe(data)
        n == Len(d)
        down == fit_parabola3d(Column(d, "x", 1, 3), Column(d, "y", 1, 3),
                               Column(d, "z", 1, 3), 100)
        up == fit_parabola3d(Column(d, "x", 3, n), Column(d, "y", 3, n),
                             Column(d, "z", 3, n), 100)
    IN  IF down.status # "ok" THEN [ret |-> down, drawn |-> <<>>]
        ELSE IF up.status # "ok" THEN [ret |-> up, drawn |-> <<>>]
        ELSE [ret |-> [status |-> "ok"],
              drawn |-> << [kind |-> "line", name |-> "ace",
                            x |-> down.x_fine \o up.x_fine,
                            y |-> down.y_fine \o up.y_fine,
                            z |-> down.z_fine \o up.z_fine, color |-> Str("pink")] >>]

InitFit ==
    /\ artists = <<>>
    /\ axcfg = FreshAxes
    /\ fontLoads = 0
    /\ \/ args \in [op : {"fit_parabola3d"}, m : 0..MaxPoints, npoints : 0..MaxNpoints]
       \/ args \in [op : {"ace"}, n : 0..MaxSamples, side : {-1, 1}]
    /\ ret = None
    /\ pc = "call"

FitParabola ==
    /\ pc = "call"
    /\ args.op = "fit_parabola3d"
    /\ LET data == Track(args.m, -1)
           m == args.m
       IN  ret' = fit_parabola3d(Column(data, "x", 1, m), Column(data, "y", 1, m),
                                 Column(data, "z", 1, m), args.npoints)
    /\ pc' = "done"
    /\ UNCHANGED <<artists, axcfg, fontLoads, args>>

AceLoopBody ==
    /\ pc = "call"
    /\ args.op = "ace"
    /\ LET arc == AceArc(Track(args.n, args.side))
       IN  /\ ret' = arc.ret
           /\ artists' = artists \o arc.drawn
    /\ pc' = "done"
    /\ UNCHANGED <<axcfg, fontLoads, args>>

NextFit == FitParabola \/ AceLoopBody

SpecFit == InitFit /\ [][NextFit]_vars

\* fit_parabola3d has been called directly / the loop body has run.
FitDone == pc = "done" /\ args.op = "fit_parabola3d"
AceDone == pc = "done" /\ args.op = "ace"

\* C3 (as claimed): with m >= 2 points fit_parabola3d succeeds, whatever m and
\* npoints, and returns three arrays of npoints values each; so does the fit of
\* the ascending segment data.iloc[2:] of a tracking sequence of any length.
C3_FitSucceeds ==
    /\ (FitDone /\ args.m >= 2) =>
           /\ ret.status = "ok"
           /\ Len(ret.x_fine) = args.npoints
           /\ Len(ret.y_fine) = args.npoints
           /\ Len(ret.z_fine) = args.npoints
    /\ (AceDone /\ args.n >= 4) =>
           /\ ret.status = "ok"
           /\ Len(artists) = 1 /\ Len(artists[1].x) = 200

\* C4 (as claimed): with fewer than 2 points fit_parabola3d ends in
\* InsufficientPointsError and returns no arrays, also for the segments of a
\* tracking sequence of 3 or fewer samples.
C4_InsufficientPointsError ==
    /\ (FitDone /\ args.m < 2) => ret.status = "InsufficientPointsError"
    /\ (AceDone /\ args.n >= 1 /\ args.n <= 3) =>
           ret.status = "InsufficientPointsError"

\* C4 (amended): with fewer than 2 points fit_parabola3d ends in the TypeError
\* of splprep's degree check, reported to the caller, and returns no arrays; the
\* loop body on a tracking sequence of 1 to 3 samples ends in that error and
\* plots no arc.
C4_FewPointsRaise ==
    /\ (FitDone /\ args.m < 2) =>
           /\ ret.status = "TypeError"
           /\ DOMAIN ret = {"status"}
    /\ (AceDone /\ args.n >= 1 /\ args.n <= 3) =>
           /\ ret.status = "TypeError"
           /\ artists = <<>>

\* C4, witness: fit_parabola3d was called with one point and raised.
C4_Witness == FitDone /\ args.m = 1 /\ args.npoints > 0 /\ ret.status = "TypeError"

\* ------------------------------------------- bounce points, lines 64-90

\* Bounce coordinates are held in millimetres: cutoff_x = 7.4, cutoff_y = 6.487.
cutoff_x == 7400
cutoff_y == 6487

Abs(v) == IF v < 0 THEN -v ELSE v

\* The bounce points <<x, y>> a serve of the table may have.
Bounces == {-7401, -3000, 0, 3000} \X {-6487, 0, 2000}

\* All sequences over S of length at most n.
RECURSIVE SeqsUpTo(_, _)
SeqsUpTo(S, n) ==
    IF n = 0 THEN {<<>>}
    ELSE LET shorter == SeqsUpTo(S, n - 1)
         IN  shorter \cup {Append(q, e) : q \in {r \in shorter : Len(r) = n - 1}, e \in S}

\* Lines 71-72 and 82-83: the rows within the cut-off, in the table's order.
RECURSIVE WithinCutoff(_)
WithinCutoff(rows) ==
    IF rows = <<>> THEN <<>>
    ELSE LET r == Head(rows)
             rest == WithinCutoff(Tail(rows))
         IN  IF Abs(r[1]) <= cutoff_x /\ Abs(r[2]) <= cutoff_y THEN <<r>> \o rest ELSE rest

\* Lines 84-85 (and 89-90): flipped = xy[:, 0] < 0; xy[flipped] = 0 - xy[flipped].
\* The rows with x < 0 are negated whole, x and y.
\* The mutant negates x alone.
FlipRowsXOnly(xy) ==
    [i \in 1..Len(xy) |-> IF xy[i][1] < 0 THEN <<0 - xy[i][1], xy[i][2]>> ELSE xy[i]]

FlipRows(xy) ==
    [i \in 1..Len(xy) |-> IF xy[i][1] < 0 THEN <<0 - xy[i][1], 0 - xy[i][2]>> ELSE xy[i]]

InitNorm ==
    /\ artists = <<>>
    /\ axcfg = FreshAxes
    /\ fontLoads = 0
    /\ args \in [op : {"bounces"}, rows : SeqsUpTo(Bounces, MaxServes)]
    /\ ret = None
    /\ pc = "call"

\* Lines 82-85: the array of bounce points of one court side, then the flip.
NormaliseBounces ==
    /\ pc = "call"
    /\ args.op = "bounces"
    /\ LET xy == WithinCutoff(args.rows)
       IN  ret' = [status |-> "ok", before |-> xy, xy |-> FlipRows(xy)]
    /\ pc' = "done"
    /\ UNCHANGED <<artists, axcfg, fontLoads, args>>

NextNorm == NormaliseBounces

SpecNorm == InitNorm /\ [][NextNorm]_vars

NormDone == pc = "done" /\ args.op = "bounces"

\* C10 (as claimed): a point with x < 0 has the sign flipped on one axis (x),
\* a point with x >= 0 is unchanged; afterwards every x >= 0, and normalising
\* again changes nothing.
C10_FlipOneAxis ==
    NormDone =>
        /\ Len(ret.xy) = Len(ret.before)
        /\ \A i \in 1..Len(ret.xy) :
               /\ (ret.before[i][1] < 0) =>
                      ret.xy[i] = <<-ret.before[i][1], ret.before[i][2]>>
               /\ (ret.before[i][1] >= 0) => ret.xy[i] = ret.before[i]
               /\ ret.xy[i][1] >= 0
        /\ FlipRows(ret.xy) = ret.xy

\* C10 (amended): a point with x < 0 has the sign flipped on both axes, x and
\* y, a point with x >= 0 is unchanged; afterwards every x >= 0, and
\* normalising again changes nothing.
C10_FlipBothAxes ==
    NormDone =>
        /\ Len(ret.xy) = Len(ret.before)
        /\ \A i \in 1..Len(ret.xy) :
               /\ (ret.before[i][1] < 0) =>
                      ret.xy[i] = <<-ret.before[i][1], -ret.before[i][2]>>
               /\ (ret.before[i][1] >= 0) => ret.xy[i] = ret.before[i]
               /\ ret.xy[i][1] >= 0
        /\ FlipRows(ret.xy) = ret.xy

\* C10, witness: a point with x < 0 and y # 0 was flipped beside one left alone.
C10_Witness ==
    /\ NormDone
    /\ ret.before = << <<-3000, 2000>>, <<3000, 2000>> >>
    /\ ret.xy = << <<3000, -2000>>, <<3000, 2000>> >>

====
